---- MODULE Spec2Model ----
(***************************************************************************)
(* A model of main.py of url-email-extractor: the mailbox run of           *)
(* process_emails (IMAP search/fetch, per-message reply through            *)
(* send_email, add_flags, logout) and the pure text functions it calls     *)
(* (get_email_body, the subject decoding, extract_urls, extract_emails,    *)
(* the reply composition).                                                 *)
(*                                                                         *)
(* A text is a sequence of one-character strings.  A byte string is a      *)
(* sequence of the same characters plus the byte HiByte, which is not      *)
(* valid UTF-8.                                                            *)
(***************************************************************************)
EXTENDS Integers, Sequences, FiniteSets, TLC

VARIABLES
    mailbox,      \* UID -> the message stored in INBOX
    seen,         \* the UIDs that carry the \Seen flag
    pc,           \* position of process_emails
    runs,         \* number of runs of process_emails started
    imap_server,  \* process_emails' imap_server is not None
    messages,     \* result of imap_server.search('UNSEEN')
    idx,          \* position of the for loop in messages
    reply,        \* the arguments of the send_email call in progress
    smtp_server,  \* send_email's smtp_server is not None
    log,          \* the requests issued in the current run, in order
    outbox,       \* the send_email calls of the current run, in order
    delivered,    \* UID -> number of send_message calls that succeeded, all runs
    sent,         \* the send_email calls of all runs, each with its batch and position
    xpc,          \* position of the text-function driver
    xtext,        \* the text given to the extractors
    xn,           \* number of fragments xtext was built from
    xurls,        \* result of extract_urls(xtext)
    xemails,      \* result of extract_emails(xtext)
    xbody,        \* the reply body composed from xurls and xemails
    ypc,          \* position of the message driver
    ymsg,         \* the parsed message given to the loop body
    ybody,        \* result of get_email_body(ymsg)
    ysubject,     \* the decoded subject of ymsg
    yreply        \* what the loop body hands to send_email for ymsg

vars == <<mailbox, seen, pc, runs, imap_server, messages, idx, reply,
          smtp_server, log, outbox, delivered, sent,
          xpc, xtext, xn, xurls, xemails, xbody,
          ypc, ymsg, ybody, ysubject, yreply>>

runVars == <<mailbox, seen, pc, runs, imap_server, messages, idx, reply,
             smtp_server, log, outbox, delivered, sent>>

textVars == <<xpc, xtext, xn, xurls, xemails, xbody>>

msgVars == <<ypc, ymsg, ybody, ysubject, yreply>>

----------------------------------------------------------------------------
(* Characters *)

Lower == {"a","b","c","d","e","f","g","h","i","j","k","l","m",
          "n","o","p","q","r","s","t","u","v","w","x","y","z"}

Upper == {"A","B","C","D","E","F","G","H","I","J","K","L","M",
          "N","O","P","Q","R","S","T","U","V","W","X","Y","Z"}

Digit == {"0","1","2","3","4","5","6","7","8","9"}

Alpha == Lower \cup Upper

\* \s of the re module, and the characters str.strip() removes
Whitespace == {" ", "\t", "\n", "\r"}

\* a byte >= 0x80 standing alone: not decodable as UTF-8
HiByte == "xFF"

\* what latin-1 decodes HiByte to
HiChar == "y:"

\* the printable ASCII characters in code-point order, from 32 (space)
AsciiTable ==
    <<" ","!","dquote","#","$","%","&","'","(",")","*","+",",","-",".","/",
      "0","1","2","3","4","5","6","7","8","9",":",";","<","=",">","?",
      "@","A","B","C","D","E","F","G","H","I","J","K","L","M","N","O",
      "P","Q","R","S","T","U","V","W","X","Y","Z","[","bslash","]","^","_",
      "btick","a","b","c","d","e","f","g","h","i","j","k","l","m","n","o",
      "p","q","r","s","t","u","v","w","x","y","z","{","|","}","~">>

\* ord(c)
Ord(c) ==
    CASE c = "\t" -> 9
      [] c = "\n" -> 10
      [] c = "\r" -> 13
      [] c = HiChar -> 255
      [] OTHER -> 31 + (CHOOSE i \in 1..Len(AsciiTable) : AsciiTable[i] = c)

\* a < b for two str values (code-point lexicographic order)
RECURSIVE StrLess(_, _)
StrLess(a, b) ==
    IF Len(b) = 0 THEN FALSE
    ELSE IF Len(a) = 0 THEN TRUE
    ELSE IF Head(a) = Head(b) THEN StrLess(Tail(a), Tail(b))
    ELSE Ord(Head(a)) < Ord(Head(b))

\* str.strip()
RECURSIVE LStrip(_)
LStrip(s) ==
    IF Len(s) > 0 /\ Head(s) \in Whitespace THEN LStrip(Tail(s)) ELSE s

RECURSIVE RStrip(_)
RStrip(s) ==
    IF Len(s) > 0 /\ s[Len(s)] \in Whitespace
    THEN RStrip(SubSeq(s, 1, Len(s) - 1)) ELSE s

Strip(s) == RStrip(LStrip(s))

\* sub in s, for two str values
Contains(s, sub) ==
    \E i \in 1..(Len(s) - Len(sub) + 1) : SubSeq(s, i, i + Len(sub) - 1) = sub

Range(s) == {s[i] : i \in 1..Len(s)}

----------------------------------------------------------------------------
(* Regular expressions: the backtracking matcher of the re module on the    *)
(* constructs the two patterns use.  A pattern is a sequence of nodes:      *)
(*   [t |-> "cls",  s |-> set]          one character of the set            *)
(*   [t |-> "ncls", s |-> set]          one character not in the set        *)
(*   [t |-> "alt",  a |-> <<p1, p2..>>] the first alternative that lets the *)
(*                                      rest of the pattern match           *)
(*   [t |-> "rep",  r |-> p, lo, hi]    greedy repetition, hi = -1 for none *)

Lit(c) == [t |-> "cls", s |-> {c}]
Cls(S) == [t |-> "cls", s |-> S]
NotCls(S) == [t |-> "ncls", s |-> S]
Alt(a) == [t |-> "alt", a |-> a]
Rep(r, lo, hi) == [t |-> "rep", r |-> r, lo |-> lo, hi |-> hi]
Word(s) == [i \in 1..Len(s) |-> Lit(s[i])]

\* position after the match of pattern p at position i of txt, 0 if none
RECURSIVE ReMatch(_, _, _)
ReMatch(p, txt, i) ==
    IF Len(p) = 0 THEN i
    ELSE
      LET h == Head(p)
          rest == Tail(p)
      IN
      CASE h.t = "cls" ->
             IF i <= Len(txt) /\ txt[i] \in h.s
             THEN ReMatch(rest, txt, i + 1) ELSE 0
        [] h.t = "ncls" ->
             IF i <= Len(txt) /\ txt[i] \notin h.s
             THEN ReMatch(rest, txt, i + 1) ELSE 0
        [] h.t = "alt" ->
             IF Len(h.a) = 0 THEN 0
             ELSE LET first == ReMatch(Head(h.a) \o rest, txt, i)
                  IN IF first # 0 THEN first
                     ELSE ReMatch(<<Alt(Tail(h.a))>> \o rest, txt, i)
        [] h.t = "rep" ->
             LET again == Rep(h.r, IF h.lo > 0 THEN h.lo - 1 ELSE 0,
                                   IF h.hi > 0 THEN h.hi - 1 ELSE h.hi)
                 more == IF h.hi = 0 THEN 0
                         ELSE ReMatch(h.r \o <<again>> \o rest, txt, i)
             IN IF more # 0 THEN more
                ELSE IF h.lo = 0 THEN ReMatch(rest, txt, i) ELSE 0

\* re.findall(p, txt) for a pattern without groups: the non-overlapping
\* matches, leftmost first
RECURSIVE FindAllFrom(_, _, _)
FindAllFrom(p, txt, i) ==
    IF i > Len(txt) THEN <<>>
    ELSE LET e == ReMatch(p, txt, i)
         IN IF e = 0 THEN FindAllFrom(p, txt, i + 1)
            ELSE IF e = i THEN <<<<>>>> \o FindAllFrom(p, txt, i + 1)
            ELSE <<SubSeq(txt, i, e - 1)>> \o FindAllFrom(p, txt, e)

FindAll(p, txt) == FindAllFrom(p, txt, 1)

HostChars == Alpha \cup Digit \cup {".", "-"}

NoSpaceParen == Whitespace \cup {"(", ")"}

URL_REGEX ==
    << Alt(<< Word(<<"h","t","t","p">>) \o <<Rep(<<Lit("s")>>, 0, 1)>>
                \o Word(<<":","/","/">>),
              Word(<<"w","w","w",".">>) >>),
       Alt(<< << Rep(<<Cls(HostChars)>>, 1, -1),
                 Rep(<<Lit("."), Rep(<<Cls(Alpha)>>, 2, -1)>>, 0, 1) >>,
              Word(<<"l","o","c","a","l","h","o","s","t">>) >>),
       Rep(<<Lit(":"), Rep(<<Cls(Digit)>>, 1, 5)>>, 0, 1),
       Rep(<<Lit("/"), Rep(<<NotCls(NoSpaceParen)>>, 0, -1)>>, 0, 1),
       Rep(<<Lit("("), Rep(<<NotCls(NoSpaceParen)>>, 0, -1), Lit(")")>>, 0, -1) >>

LocalChars == Alpha \cup Digit \cup {".", "_", "%", "+", "-"}

EMAIL_REGEX ==
    << Rep(<<Cls(LocalChars)>>, 1, -1),
       Lit("@"),
       Rep(<<Cls(HostChars)>>, 1, -1),
       Lit("."),
       Rep(<<Cls(Alpha)>>, 2, -1) >>

\* sorted(list(S)) for a set S of str values
RECURSIVE Sorted(_)
Sorted(S) ==
    IF S = {} THEN <<>>
    ELSE LET m == CHOOSE a \in S : \A b \in S \ {a} : StrLess(a, b)
         IN <<m>> \o Sorted(S \ {m})

\* the filter with len(url) >= 5
RECURSIVE SelectUrlFromFive(_)
SelectUrlFromFive(s) ==
    IF Len(s) = 0 THEN <<>>
    ELSE (IF Len(Head(s)) >= 5 /\ "." \in Range(Head(s)) THEN <<Head(s)>> ELSE <<>>)
         \o SelectUrlFromFive(Tail(s))

\* [x for x in s if keep]
RECURSIVE SelectUrl(_)
SelectUrl(s) ==
    IF Len(s) = 0 THEN <<>>
    ELSE (IF Len(Head(s)) > 5 /\ "." \in Range(Head(s)) THEN <<Head(s)>> ELSE <<>>)
         \o SelectUrl(Tail(s))

extract_urls(text) ==
    LET found_urls == FindAll(URL_REGEX, text)
        cleaned_urls == SelectUrl(found_urls)
    IN Sorted(Range(cleaned_urls))

\* extract_emails without sorted(list(set(...)))
extract_emails_as_found(text) == FindAll(EMAIL_REGEX, text)

extract_emails(text) ==
    LET found_emails == FindAll(EMAIL_REGEX, text)
    IN Sorted(Range(found_emails))

----------------------------------------------------------------------------
(* Messages.  A header is [has |-> BOOLEAN, v |-> value]: msg['X'] is None   *)
(* when has is FALSE.  The value of Subject is what decode_header returns    *)
(* for it: a sequence of segments [s, bytes, charset], charset "" for None.  *)
(* parts is what msg.walk() yields, in order (for a message that is not      *)
(* multipart: the message itself).  A part is [ctype, cdispo, charset,       *)
(* payload]: get_content_type(), str(part.get('Content-Disposition')),       *)
(* get_content_charset() ("" for None) and get_payload(decode=True).         *)

Utf8Names == {"utf-8", "us-ascii"}

Latin1Names == {"latin-1", "iso-8859-1"}

\* b.decode('latin-1', errors='ignore')
DecodeLatin1(b) == [i \in 1..Len(b) |-> IF b[i] = HiByte THEN HiChar ELSE b[i]]

\* b.decode('utf-8', errors='ignore')
RECURSIVE DecodeUtf8(_)
DecodeUtf8(b) ==
    IF Len(b) = 0 THEN <<>>
    ELSE (IF Head(b) = HiByte THEN <<>> ELSE <<Head(b)>>) \o DecodeUtf8(Tail(b))

\* b.decode(charset if charset else 'utf-8', errors='ignore'):
\* [ok |-> FALSE] stands for the LookupError of an unknown charset
Decode(b, charset) ==
    IF charset = "" \/ charset \in Utf8Names THEN [ok |-> TRUE, v |-> DecodeUtf8(b)]
    ELSE IF charset \in Latin1Names THEN [ok |-> TRUE, v |-> DecodeLatin1(b)]
    ELSE [ok |-> FALSE, v |-> <<>>]

\* the try/except of get_email_body around one payload
DecodePayload(part) ==
    LET d == Decode(part.payload, part.charset)
    IN IF d.ok THEN d.v ELSE DecodeLatin1(part.payload)

AttachmentWord == <<"a","t","t","a","c","h","m","e","n","t">>

\* the for loop of get_email_body over msg.walk()
RECURSIVE WalkParts(_)
WalkParts(parts) ==
    IF Len(parts) = 0 THEN <<>>
    ELSE LET part == Head(parts)
         IN IF part.ctype = "text/plain" /\ ~Contains(part.cdispo, AttachmentWord)
            THEN DecodePayload(part)
            ELSE WalkParts(Tail(parts))

get_email_body(msg) ==
    IF msg.multipart THEN WalkParts(msg.parts)
    ELSE DecodePayload(msg.parts[1])

\* the decoded_parts loop of process_emails: [ok |-> FALSE] when a segment's
\* decode raises
RECURSIVE DecodeSegments(_)
DecodeSegments(segs) ==
    IF Len(segs) = 0 THEN [ok |-> TRUE, v |-> <<>>]
    ELSE LET seg == Head(segs)
             d == IF seg.bytes THEN Decode(seg.s, seg.charset)
                  ELSE [ok |-> TRUE, v |-> seg.s]
             rest == DecodeSegments(Tail(segs))
         IN IF d.ok /\ rest.ok THEN [ok |-> TRUE, v |-> d.v \o rest.v]
            ELSE [ok |-> FALSE, v |-> <<>>]

\* the "Extract subject" block of process_emails: subject stays "" when
\* decode_header(None) or a segment's decode raises
DecodeSubject(msg) ==
    IF ~msg.Subject.has THEN <<>>
    ELSE LET d == DecodeSegments(msg.Subject.v)
         IN IF d.ok THEN d.v ELSE <<>>

\* re.search(r'<(.*?)>', raw): [found, group1]
SearchBracket(raw) ==
    LET Closes(i) == {j \in (i + 1)..Len(raw) : raw[j] = ">"}
        FirstClose(i) == CHOOSE j \in Closes(i) : \A k \in Closes(i) : j <= k
        Opens == {i \in 1..Len(raw) :
                     /\ raw[i] = "<"
                     /\ Closes(i) # {}
                     /\ \A k \in (i + 1)..(FirstClose(i) - 1) : raw[k] # "\n"}
    IN IF Opens = {} THEN [found |-> FALSE, group1 |-> <<>>]
       ELSE LET i == CHOOSE a \in Opens : \A b \in Opens : a <= b
            IN [found |-> TRUE, group1 |-> SubSeq(raw, i + 1, FirstClose(i) - 1)]

\* the "Extract sender's email address" block: re.search raises TypeError
\* when msg['From'] is None
ParseSender(msg) ==
    IF ~msg.From.has THEN [raised |-> TRUE, v |-> <<>>]
    ELSE LET match == SearchBracket(msg.From.v)
         IN [raised |-> FALSE,
             v |-> IF match.found THEN match.group1 ELSE msg.From.v]

\* text_to_process with the subject taken first
TextToProcessSubjectFirst(body, subject) ==
    LET text_to_process == Strip(subject)
    IN IF Len(text_to_process) = 0 /\ Len(Strip(body)) # 0
       THEN Strip(body)
       ELSE text_to_process

\* text_to_process of process_emails
TextToProcess(body, subject) ==
    LET text_to_process == Strip(body)
    IN IF Len(text_to_process) = 0 /\ Len(Strip(subject)) # 0
       THEN Strip(subject)
       ELSE text_to_process

----------------------------------------------------------------------------
(* The reply.  A reply body is a sequence of pieces: one-character strings,  *)
(* the newline "\n", and the literal phrases of the code as one piece each.  *)

SuccessSubject == "Your Extracted URLs & Emails"

ErrorSubject == "Error: No Text Provided"

ErrorBody == <<"Please send an email with the text you want to process in the body or subject. I couldn't find any text to extract from.">>

Hello == "Hello from your Extractor Bot!"

Intro == "Here are the extracted items from your text:"

UrlHeading == "--- Found URLs ---"

EmailHeading == "--- Found Email Addresses ---"

NothingFound == "No URLs or email addresses were found in your text."

Tips == "Tips: Ensure URLs start with http:// or https:// (or www.) and email addresses are in standard format like user@domain.com."

Signature == "Powered by YourExtractor.your-subdomain.com"

\* [f"- {x}" for x in items]
Bullets(items) == [i \in 1..Len(items) |-> <<"-", " ">> \o items[i]]

\* sep.join(parts)
RECURSIVE Join(_, _)
Join(parts, sep) ==
    IF Len(parts) = 0 THEN <<>>
    ELSE IF Len(parts) = 1 THEN parts[1]
    ELSE parts[1] \o sep \o Join(Tail(parts), sep)

\* response_body with the address section appended before the URL section
ComposeBodyEmailsFirst(extracted_urls, extracted_emails) ==
    LET response_parts ==
            << <<Hello>>, <<"\n", Intro, "\n">> >>
            \o (IF Len(extracted_emails) # 0
                THEN << <<"\n", EmailHeading>> >> \o Bullets(extracted_emails)
                     \o << <<"\n">> >>
                ELSE <<>>)
            \o (IF Len(extracted_urls) # 0
                THEN << <<"\n", UrlHeading>> >> \o Bullets(extracted_urls)
                     \o << <<"\n">> >>
                ELSE <<>>)
            \o (IF Len(extracted_urls) = 0 /\ Len(extracted_emails) = 0
                THEN << <<"\n", NothingFound>>, <<"\n", Tips>> >>
                ELSE <<>>)
    IN Join(response_parts, <<"\n">>) \o <<"\n", "\n", "---", "\n", Signature>>

\* response_body of process_emails
ComposeBody(extracted_urls, extracted_emails) ==
    LET response_parts ==
            << <<Hello>>, <<"\n", Intro, "\n">> >>
            \o (IF Len(extracted_urls) # 0
                THEN << <<"\n", UrlHeading>> >> \o Bullets(extracted_urls)
                     \o << <<"\n">> >>
                ELSE <<>>)
            \o (IF Len(extracted_emails) # 0
                THEN << <<"\n", EmailHeading>> >> \o Bullets(extracted_emails)
                     \o << <<"\n">> >>
                ELSE <<>>)
            \o (IF Len(extracted_urls) = 0 /\ Len(extracted_emails) = 0
                THEN << <<"\n", NothingFound>>, <<"\n", Tips>> >>
                ELSE <<>>)
    IN Join(response_parts, <<"\n">>) \o <<"\n", "\n", "---", "\n", Signature>>

\* the body of the for loop of process_emails up to the send_email call:
\* raised when an exception leaves the loop body before send_email is called
PrepareReply(msg) ==
    LET sender == ParseSender(msg)
        subject == DecodeSubject(msg)
        body == get_email_body(msg)
        text_to_process == TextToProcess(body, subject)
    IN IF sender.raised
       THEN [raised |-> TRUE, extracted |-> FALSE, text |-> <<>>,
             to |-> <<>>, subject |-> "", body |-> <<>>]
       ELSE IF Len(text_to_process) # 0
       THEN [raised |-> FALSE, extracted |-> TRUE, text |-> text_to_process,
             to |-> sender.v, subject |-> SuccessSubject,
             body |-> ComposeBody(extract_urls(text_to_process),
                                  extract_emails(text_to_process))]
       ELSE [raised |-> FALSE, extracted |-> FALSE, text |-> text_to_process,
             to |-> sender.v, subject |-> ErrorSubject, body |-> ErrorBody]

----------------------------------------------------------------------------
(* Bounds and sample inputs *)

\* number of messages in INBOX
NumMessages == 2

\* number of runs of process_emails
MaxRuns == 2

\* number of fragments a text is built from
MaxFragments == 3

\* number of parts inside a multipart message
MaxParts == 2

\* number of segments of a Subject header
MaxSegments == 2

UIDs == 1..NumMessages

Hdr(v) == [has |-> TRUE, v |-> v]

NoHdr == [has |-> FALSE, v |-> <<>>]

StrSeg(s) == [s |-> s, bytes |-> FALSE, charset |-> ""]

ByteSeg(s, charset) == [s |-> s, bytes |-> TRUE, charset |-> charset]

Part(ctype, cdispo, charset, payload) ==
    [ctype |-> ctype, cdispo |-> cdispo, charset |-> charset, payload |-> payload]

NoneStr == <<"N","o","n","e">>

Single(charset, payload) ==
    [multipart |-> FALSE, parts |-> <<Part("text/plain", NoneStr, charset, payload)>>]

BracketFrom == Hdr(<<"A"," ","<","a","@","b",".","i","o",">">>)

RawFrom == Hdr(<<"c","@","d",".","e","f">>)

\* the messages INBOX may hold
SampleMessages ==
    { \* a body with a URL and an address
      [From |-> BracketFrom, Subject |-> Hdr(<<StrSeg(<<"h","i">>)>>)]
        @@ Single("utf-8", <<" ","w","w","w",".","a","b"," ","c","@","d",".","e","f","\n">>),
      \* no From header
      [From |-> NoHdr, Subject |-> Hdr(<<StrSeg(<<"h","i">>)>>)]
        @@ Single("", <<"x">>),
      \* a blank body, the text is in the subject
      [From |-> RawFrom, Subject |-> Hdr(<<StrSeg(<<" ","c","@","d",".","e","f"," ">>)>>)]
        @@ Single("", <<" ","\n">>),
      \* an empty body and a blank subject
      [From |-> BracketFrom, Subject |-> Hdr(<<StrSeg(<<" "," ">>)>>)]
        @@ Single("utf-8", <<>>),
      \* multipart: HTML, an attached text file, then the plain text; no Subject
      [From |-> RawFrom, Subject |-> NoHdr, multipart |-> TRUE,
       parts |-> << Part("multipart/mixed", NoneStr, "", <<>>),
                    Part("text/html", NoneStr, "utf-8", <<"<","p",">">>),
                    Part("text/plain", AttachmentWord, "utf-8", <<"w","w","w",".","z","z">>),
                    Part("text/plain", NoneStr, "x-unknown", <<"h","i",HiByte>>) >>],
      \* a subject of two segments, the second in an unknown charset; HTML only
      [From |-> BracketFrom,
       Subject |-> Hdr(<<ByteSeg(<<"w","w","w",".","a","b">>, "utf-8"),
                         ByteSeg(<<"x">>, "x-unknown")>>),
       multipart |-> TRUE,
       parts |-> << Part("multipart/alternative", NoneStr, "", <<>>),
                    Part("text/html", NoneStr, "utf-8", <<"<","p",">">>) >>] }

\* the fragments a text is built from
Fragments ==
    { <<"w","w","w",".">>, <<"h","t","t","p",":","/","/">>,
      <<"l","o","c","a","l","h","o","s","t">>, <<"a","b",".","i","o">>,
      <<"b","@","c",".","d","e">>, <<"B","@","C",".","D","E">>,
      <<" ">>, <<"/","p","(","x",")">>, <<":","8","0">>,
      <<"w","w","w",".","b",".","i","o">>, <<"w","w","w",".","Z",".","i","o">>,
      <<"w","w","w",".","a">> }

----------------------------------------------------------------------------
(* process_emails *)

NoReply == [raised |-> FALSE, extracted |-> FALSE, text |-> <<>>,
            to |-> <<>>, subject |-> "", body |-> <<>>]

\* the message of the message driver while it is not used
IdleMessage == [From |-> NoHdr, Subject |-> NoHdr] @@ Single("", <<>>)

Ev(op, uid, ok) == [op |-> op, uid |-> uid, ok |-> ok]

\* the UIDs of S in ascending order
RECURSIVE Ascending(_)
Ascending(S) ==
    IF S = {} THEN <<>>
    ELSE LET m == CHOOSE a \in S : \A b \in S : a <= b
         IN <<m>> \o Ascending(S \ {m})

\* imap_server.search('UNSEEN')
SearchUnseen == Ascending(UIDs \ seen)

CurrentUid == messages[idx]

Init ==
    /\ mailbox \in [UIDs -> SampleMessages]
    /\ seen = {}
    /\ pc = "idle"
    /\ runs = 0
    /\ imap_server = FALSE
    /\ messages = <<>>
    /\ idx = 0
    /\ reply = NoReply
    /\ smtp_server = FALSE
    /\ log = <<>>
    /\ outbox = <<>>
    /\ delivered = [u \in UIDs |-> 0]
    /\ sent = {}
    /\ xpc = "off"
    /\ xtext = <<>>
    /\ xn = 0
    /\ xurls = <<>>
    /\ xemails = <<>>
    /\ xbody = <<>>
    /\ ypc = "off"
    /\ ymsg = IdleMessage
    /\ ybody = <<>>
    /\ ysubject = <<>>
    /\ yreply = NoReply

\* a run of process_emails starts
StartRun ==
    /\ pc = "idle"
    /\ runs < MaxRuns
    /\ runs' = runs + 1
    /\ pc' = "connect_imap"
    /\ imap_server' = FALSE
    /\ messages' = <<>>
    /\ idx' = 0
    /\ reply' = NoReply
    /\ smtp_server' = FALSE
    /\ log' = <<>>
    /\ outbox' = <<>>
    /\ UNCHANGED <<mailbox, seen, delivered, sent, textVars, msgVars>>

\* where process_emails goes when a statement of its try block raises
OnException == "finally"

\* imap_server = connect_to_imap()
ConnectImap ==
    /\ pc = "connect_imap"
    /\ \E ok \in BOOLEAN :
         /\ log' = Append(log, Ev("imap_connect", 0, ok))
         /\ imap_server' = ok
         /\ pc' = IF ok THEN "select_folder" ELSE OnException
    /\ UNCHANGED <<mailbox, seen, runs, messages, idx, reply, smtp_server,
                   outbox, delivered, sent, textVars, msgVars>>

\* imap_server.select_folder('INBOX')
SelectFolder ==
    /\ pc = "select_folder"
    /\ \E ok \in BOOLEAN :
         /\ log' = Append(log, Ev("select_folder", 0, ok))
         /\ pc' = IF ok THEN "search" ELSE OnException
    /\ UNCHANGED <<mailbox, seen, runs, imap_server, messages, idx, reply,
                   smtp_server, outbox, delivered, sent, textVars, msgVars>>

\* messages = imap_server.search('UNSEEN'); if not messages: return
Search ==
    /\ pc = "search"
    /\ \E ok \in BOOLEAN :
         /\ log' = Append(log, Ev("search", 0, ok))
         /\ messages' = IF ok THEN SearchUnseen ELSE <<>>
         /\ pc' = IF ~ok THEN OnException
                  ELSE IF Len(SearchUnseen) = 0 THEN "finally" ELSE "fetch"
    /\ UNCHANGED <<mailbox, seen, runs, imap_server, idx, reply, smtp_server,
                   outbox, delivered, sent, textVars, msgVars>>

\* imap_server.fetch(messages, ['RFC822'])
Fetch ==
    /\ pc = "fetch"
    /\ \E ok \in BOOLEAN :
         /\ log' = Append(log, Ev("fetch", 0, ok))
         /\ idx' = IF ok THEN 1 ELSE idx
         /\ pc' = IF ok THEN "loop" ELSE OnException
    /\ UNCHANGED <<mailbox, seen, runs, imap_server, messages, reply,
                   smtp_server, outbox, delivered, sent, textVars, msgVars>>

\* the loop body with no reply on the no-text path
PrepareLogNoErrorReply(uid, r) ==
    IF r.raised THEN <<Ev("raise", uid, FALSE)>>
    ELSE IF r.extracted
    THEN <<Ev("extract_urls", uid, TRUE), Ev("extract_emails", uid, TRUE),
           Ev("send_email", uid, TRUE)>>
    ELSE <<>>

\* the requests of the loop body for one message, up to the send_email call
PrepareLog(uid, r) ==
    IF r.raised THEN <<Ev("raise", uid, FALSE)>>
    ELSE (IF r.extracted
          THEN <<Ev("extract_urls", uid, TRUE), Ev("extract_emails", uid, TRUE)>>
          ELSE <<>>)
         \o <<Ev("send_email", uid, TRUE)>>

\* the loop body marking a message it could not process
AfterPrepareMarkSeen(r) == IF r.raised THEN "add_flags" ELSE "smtp_connect"

\* where the loop body goes from its first part: to send_email, or out of
\* the loop with the exception
AfterPrepare(r) == IF r.raised THEN OnException ELSE "smtp_connect"

\* a send_email call as it is remembered across runs
SentAs(r, body) ==
    [uid |-> CurrentUid, pos |-> idx, batch |-> messages,
     to |-> r.to, subject |-> r.subject, body |-> body]

\* the loop body with response_parts created once, before the for loop
LoopBodySharedParts ==
    /\ pc = "loop"
    /\ idx <= Len(messages)
    /\ LET r == PrepareReply(mailbox[CurrentUid])
           body == IF outbox = <<>> \/ ~r.extracted THEN r.body
                   ELSE outbox[Len(outbox)].body \o <<"\n">> \o r.body
       IN /\ log' = log \o PrepareLog(CurrentUid, r)
          /\ reply' = r
          /\ outbox' = IF r.raised THEN outbox
                       ELSE Append(outbox, [uid |-> CurrentUid, to |-> r.to,
                                            subject |-> r.subject, body |-> body])
          /\ sent' = IF r.raised THEN sent ELSE sent \cup {SentAs(r, body)}
          /\ pc' = AfterPrepare(r)
    /\ UNCHANGED <<mailbox, seen, runs, imap_server, messages, idx,
                   smtp_server, delivered, textVars, msgVars>>

\* the loop body for the next message, up to the send_email call
LoopBody ==
    /\ pc = "loop"
    /\ idx <= Len(messages)
    /\ LET r == PrepareReply(mailbox[CurrentUid])
       IN /\ log' = log \o PrepareLog(CurrentUid, r)
          /\ reply' = r
          /\ outbox' = IF r.raised THEN outbox
                       ELSE Append(outbox, [uid |-> CurrentUid, to |-> r.to,
                                            subject |-> r.subject, body |-> r.body])
          /\ sent' = IF r.raised THEN sent ELSE sent \cup {SentAs(r, r.body)}
          /\ pc' = AfterPrepare(r)
    /\ UNCHANGED <<mailbox, seen, runs, imap_server, messages, idx,
                   smtp_server, delivered, textVars, msgVars>>

\* the for loop is exhausted
LoopEnd ==
    /\ pc = "loop"
    /\ idx > Len(messages)
    /\ pc' = "finally"
    /\ UNCHANGED <<mailbox, seen, runs, imap_server, messages, idx, reply,
                   smtp_server, log, outbox, delivered, sent, textVars, msgVars>>

\* send_email: smtp_server = connect_to_smtp(); a failure is caught and
\* leaves smtp_server None
SmtpConnect ==
    /\ pc = "smtp_connect"
    /\ \E ok \in BOOLEAN :
         /\ log' = Append(log, Ev("smtp_connect", CurrentUid, ok))
         /\ smtp_server' = ok
         /\ pc' = IF ok THEN "send_message" ELSE "add_flags"
    /\ UNCHANGED <<mailbox, seen, runs, imap_server, messages, idx, reply,
                   outbox, delivered, sent, textVars, msgVars>>

\* send_email: building the EmailMessage and smtp_server.send_message(msg);
\* a failure is caught
SendMessage ==
    /\ pc = "send_message"
    /\ \E ok \in BOOLEAN :
         /\ log' = Append(log, Ev("send_message", CurrentUid, ok))
         /\ delivered' = IF ok
                         THEN [delivered EXCEPT ![CurrentUid] = @ + 1]
                         ELSE delivered
    /\ pc' = "quit"
    /\ UNCHANGED <<mailbox, seen, runs, imap_server, messages, idx, reply,
                   smtp_server, outbox, sent, textVars, msgVars>>

\* send_email leaving the SMTP session open: no quit() in its finally
QuitLeftOpen ==
    /\ pc = "quit"
    /\ pc' = "add_flags"
    /\ UNCHANGED <<mailbox, seen, runs, imap_server, messages, idx, reply,
                   smtp_server, log, outbox, delivered, sent, textVars, msgVars>>

\* send_email: finally: if smtp_server: smtp_server.quit()
Quit ==
    /\ pc = "quit"
    /\ \E ok \in BOOLEAN :
         /\ log' = Append(log, Ev("quit", CurrentUid, ok))
         /\ pc' = IF ok THEN "add_flags" ELSE OnException
    /\ smtp_server' = FALSE
    /\ UNCHANGED <<mailbox, seen, runs, imap_server, messages, idx, reply,
                   outbox, delivered, sent, textVars, msgVars>>

\* imap_server.add_flags(uid, '\\Seen')
AddFlags ==
    /\ pc = "add_flags"
    /\ \E ok \in BOOLEAN :
         /\ log' = Append(log, Ev("add_flags", CurrentUid, ok))
         /\ seen' = IF ok THEN seen \cup {CurrentUid} ELSE seen
         /\ idx' = IF ok THEN idx + 1 ELSE idx
         /\ pc' = IF ok THEN "loop" ELSE OnException
    /\ smtp_server' = FALSE
    /\ UNCHANGED <<mailbox, runs, imap_server, messages, reply, outbox,
                   delivered, sent, textVars, msgVars>>

\* a finally block that calls logout() whether or not the connection exists
LogoutUnguarded ==
    /\ pc = "finally"
    /\ \E ok \in BOOLEAN : log' = Append(log, Ev("logout", 0, ok))
    /\ pc' = "idle"
    /\ UNCHANGED <<mailbox, seen, runs, imap_server, messages, idx, reply,
                   smtp_server, outbox, delivered, sent, textVars, msgVars>>

\* finally: if imap_server: imap_server.logout(), a failure is caught
Logout ==
    /\ pc = "finally"
    /\ \E ok \in BOOLEAN :
         /\ log' = IF imap_server THEN Append(log, Ev("logout", 0, ok)) ELSE log
    /\ pc' = "idle"
    /\ UNCHANGED <<mailbox, seen, runs, imap_server, messages, idx, reply,
                   smtp_server, outbox, delivered, sent, textVars, msgVars>>

Next ==
    \/ StartRun
    \/ ConnectImap
    \/ SelectFolder
    \/ Search
    \/ Fetch
    \/ LoopBody
    \/ LoopEnd
    \/ SmtpConnect
    \/ SendMessage
    \/ Quit
    \/ AddFlags
    \/ Logout

Spec == Init /\ [][Next]_vars

----------------------------------------------------------------------------
(* The text functions on their own: a text is built from fragments, then    *)
(* extract_urls and extract_emails are applied and the reply body composed. *)

InitText ==
    /\ mailbox = [u \in UIDs |-> CHOOSE m \in SampleMessages : TRUE]
    /\ seen = {}
    /\ pc = "off"
    /\ runs = 0
    /\ imap_server = FALSE
    /\ messages = <<>>
    /\ idx = 0
    /\ reply = NoReply
    /\ smtp_server = FALSE
    /\ log = <<>>
    /\ outbox = <<>>
    /\ delivered = [u \in UIDs |-> 0]
    /\ sent = {}
    /\ xpc = "build"
    /\ xtext = <<>>
    /\ xn = 0
    /\ xurls = <<>>
    /\ xemails = <<>>
    /\ xbody = <<>>
    /\ ypc = "off"
    /\ ymsg = IdleMessage
    /\ ybody = <<>>
    /\ ysubject = <<>>
    /\ yreply = NoReply

AddFragment ==
    /\ xpc = "build"
    /\ xn < MaxFragments
    /\ \E f \in Fragments : xtext' = xtext \o f
    /\ xn' = xn + 1
    /\ UNCHANGED <<xpc, xurls, xemails, xbody, runVars, msgVars>>

ExtractText ==
    /\ xpc = "build"
    /\ xurls' = extract_urls(xtext)
    /\ xemails' = extract_emails(xtext)
    /\ xpc' = "extracted"
    /\ UNCHANGED <<xtext, xn, xbody, runVars, msgVars>>

ComposeText ==
    /\ xpc = "extracted"
    /\ xbody' = ComposeBody(xurls, xemails)
    /\ xpc' = "composed"
    /\ UNCHANGED <<xtext, xn, xurls, xemails, runVars, msgVars>>

NextText ==
    \/ AddFragment
    \/ ExtractText
    \/ ComposeText

SpecText == InitText /\ [][NextText]_vars

----------------------------------------------------------------------------
(* The loop body on one message on its own: a message is put together from  *)
(* a From header, Subject segments and body parts, then the loop body of    *)
(* process_emails resolves it up to the send_email call.                    *)

\* the From headers a message may carry
SampleFroms ==
    { NoHdr, RawFrom, BracketFrom,
      Hdr(<<"<","<","c",">",">">>),
      Hdr(<<">","<">>),
      \* a folded header: a line break between the brackets
      Hdr(<<"<","a","\n",">","<","c",">">>) }

\* the segments decode_header may return for a Subject header
SampleSegments ==
    { ByteSeg(<<"a","b">>, "utf-8"),
      ByteSeg(<<"x">>, "x-unknown"),
      ByteSeg(<<"z",HiByte>>, "latin-1"),
      StrSeg(<<" ">>) }

InlineNamedAttachment ==
    <<"i","n","l","i","n","e",";"," ","f","i","l","e","n","a","m","e","=">>
        \o AttachmentWord \o <<".","t","x","t">>

CapitalAttachment == <<"A","t","t","a","c","h","m","e","n","t">>

\* the parts a message may be made of
SampleParts ==
    { Part("text/html", NoneStr, "utf-8", <<"<","p",">">>),
      Part("text/plain", NoneStr, "utf-8", <<"h","i">>),
      Part("text/plain", AttachmentWord \o <<";"," ","f","=","x">>, "", <<"f">>),
      Part("text/plain", InlineNamedAttachment, "", <<"n">>),
      Part("text/plain", CapitalAttachment, "", <<"c">>),
      Part("text/plain", NoneStr, "x-unknown", <<"u",HiByte>>) }

Container == Part("multipart/mixed", NoneStr, "", <<>>)

InitMessage ==
    /\ mailbox = [u \in UIDs |-> CHOOSE m \in SampleMessages : TRUE]
    /\ seen = {}
    /\ pc = "off"
    /\ runs = 0
    /\ imap_server = FALSE
    /\ messages = <<>>
    /\ idx = 0
    /\ reply = NoReply
    /\ smtp_server = FALSE
    /\ log = <<>>
    /\ outbox = <<>>
    /\ delivered = [u \in UIDs |-> 0]
    /\ sent = {}
    /\ xpc = "off"
    /\ xtext = <<>>
    /\ xn = 0
    /\ xurls = <<>>
    /\ xemails = <<>>
    /\ xbody = <<>>
    /\ ypc = "build"
    /\ \E f \in SampleFroms, multipart \in BOOLEAN, p \in SampleParts :
          ymsg = [From |-> f, Subject |-> NoHdr, multipart |-> multipart,
                  parts |-> IF multipart THEN <<Container>> ELSE <<p>>]
    /\ ybody = <<>>
    /\ ysubject = <<>>
    /\ yreply = NoReply

\* one more part inside the multipart message
AddPart ==
    /\ ypc = "build"
    /\ ymsg.multipart
    /\ Len(ymsg.parts) <= MaxParts
    /\ \E p \in SampleParts : ymsg' = [ymsg EXCEPT !.parts = Append(@, p)]
    /\ UNCHANGED <<ypc, ybody, ysubject, yreply, runVars, textVars>>

\* one more segment in the Subject header
AddSegment ==
    /\ ypc = "build"
    /\ Len(ymsg.Subject.v) < MaxSegments
    /\ \E g \in SampleSegments :
          ymsg' = [ymsg EXCEPT !.Subject = Hdr(Append(ymsg.Subject.v, g))]
    /\ UNCHANGED <<ypc, ybody, ysubject, yreply, runVars, textVars>>

\* the loop body of process_emails on ymsg, up to the send_email call
Resolve ==
    /\ ypc = "build"
    /\ yreply' = PrepareReply(ymsg)
    /\ ysubject' = IF ParseSender(ymsg).raised THEN <<>> ELSE DecodeSubject(ymsg)
    /\ ybody' = IF ParseSender(ymsg).raised THEN <<>> ELSE get_email_body(ymsg)
    /\ ypc' = "resolved"
    /\ UNCHANGED <<ymsg, runVars, textVars>>

NextMessage ==
    \/ AddPart
    \/ AddSegment
    \/ Resolve

SpecMessage == InitMessage /\ [][NextMessage]_vars

----------------------------------------------------------------------------
(* Properties *)

\* the positions of the requests op for message uid in the current run
Indices(op, uid) == {i \in 1..Len(log) : log[i].op = op /\ log[i].uid = uid}

Count(op, uid) == Cardinality(Indices(op, uid))

\* the loop body ran to its end for message u
Completed(u) == \E i \in Indices("add_flags", u) : log[i].ok

\* the loop body was entered for message u
Started(u) == Indices("raise", u) \cup Indices("send_email", u) # {}

\* a step of send_email raised for message u
SendFailed(u) ==
    \E i \in 1..Len(log) :
        /\ log[i].uid = u
        /\ log[i].op \in {"smtp_connect", "send_message", "quit"}
        /\ ~log[i].ok

QuitFailed(u) == \E i \in Indices("quit", u) : ~log[i].ok

\* handling message u failed outside send_email
HandlingFailed(u) ==
    \/ Indices("raise", u) # {}
    \/ \E i \in Indices("add_flags", u) : ~log[i].ok

RunEnded == pc = "idle" /\ runs > 0

InSendEmail == pc \in {"smtp_connect", "send_message", "quit", "add_flags"}

\* s without its leading and trailing whitespace, from the definition of
\* trimming: the one slice of s that neither starts nor ends with whitespace
\* and leaves only whitespace on both sides
Trimmed(s) ==
    LET Cuts == {c \in (1..(Len(s) + 1)) \X (0..Len(s)) :
                    /\ c[1] <= c[2] + 1
                    /\ \A k \in 1..(c[1] - 1) : s[k] \in Whitespace
                    /\ \A k \in (c[2] + 1)..Len(s) : s[k] \in Whitespace
                    /\ c[1] <= c[2] => s[c[1]] \notin Whitespace
                    /\ c[1] <= c[2] => s[c[2]] \notin Whitespace}
        c == CHOOSE c \in Cuts : TRUE
    IN SubSeq(s, c[1], c[2])

\* C1: a message whose loop body ran to its end got exactly one send_email
\* call and exactly one add_flags request in the run, the send_email call
\* first.
C1_OneSendThenOneMark ==
    \A u \in UIDs :
        Completed(u) =>
            /\ Count("send_email", u) = 1
            /\ Count("add_flags", u) = 1
            /\ \A i \in Indices("send_email", u), j \in Indices("add_flags", u) : i < j

C1_Witness ==
    /\ RunEnded
    /\ \E u, v \in UIDs :
          /\ Completed(u) /\ Completed(v)
          /\ \E o \in Range(outbox) : o.uid = u /\ o.subject = SuccessSubject
          /\ \E o \in Range(outbox) : o.uid = v /\ o.subject = ErrorSubject

\* C2: an add_flags request for a message always follows a send_email call
\* for it, and when the run has ended every message send_email was called
\* for has had its add_flags request.
C2_SeenIffReplyAttempted ==
    /\ \A u \in UIDs : \A j \in Indices("add_flags", u) :
           \E i \in Indices("send_email", u) : i < j
    /\ RunEnded =>
           \A u \in UIDs : Count("send_email", u) > 0 => Count("add_flags", u) > 0

\* C3: every message the loop body was entered for gets exactly one
\* send_email call in the run.
C3_ExactlyOneReply ==
    \A u \in UIDs : Started(u) => Count("send_email", u) = 1

\* C4: over all runs, no message has a reply sent for it more than once.
C4_RepliedAtMostOnce ==
    \A u \in UIDs : delivered[u] <= 1

\* C5: when a step of send_email raised for a message, the run still issues
\* the add_flags request for it and, once that succeeded, goes on to the next
\* unread message.
C5_SendFailureOnlyLogged ==
    RunEnded =>
        \A k \in 1..Len(messages) :
            SendFailed(messages[k]) =>
                /\ Count("add_flags", messages[k]) > 0
                /\ (Completed(messages[k]) /\ k < Len(messages))
                       => Started(messages[k + 1])

\* C6: when handling one message of the batch failed, every other message of
\* the batch that met no failure of its own has had its reply requested and
\* its add_flags request.
C6_FailureIsolated ==
    RunEnded =>
        \A u, v \in Range(messages) :
            (u # v /\ HandlingFailed(u) /\ ~HandlingFailed(v) /\ ~QuitFailed(v))
                => (Count("send_email", v) = 1 /\ Count("add_flags", v) = 1)

\* C7: a message whose loop body raised before send_email was called gets no
\* add_flags request in that run.
C7_NoMarkAfterException ==
    \A u \in UIDs : Indices("raise", u) # {} => Count("add_flags", u) = 0

C7_Witness ==
    /\ RunEnded
    /\ \E u, v \in UIDs : Indices("raise", u) # {} /\ Completed(v)

\* C8: the text chosen for a message is its trimmed body when that is not
\* empty, otherwise its trimmed decoded subject (empty when that is empty
\* too), and the extractors are used exactly when the text is not empty.
C8_TextChoice ==
    InSendEmail =>
        LET msg == mailbox[CurrentUid]
            body == Trimmed(get_email_body(msg))
            subject == Trimmed(DecodeSubject(msg))
        IN /\ reply.text = IF Len(body) # 0 THEN body ELSE subject
           /\ reply.extracted <=> Len(reply.text) # 0

C8_Witness ==
    /\ InSendEmail
    /\ Len(Trimmed(get_email_body(mailbox[CurrentUid]))) = 0
    /\ Len(get_email_body(mailbox[CurrentUid])) # 0
    /\ Len(reply.text) # 0
    /\ reply.text # DecodeSubject(mailbox[CurrentUid])

\* C9: a reply has the error subject exactly when the trimmed body and the
\* trimmed subject of its message are both empty; then its body is the fixed
\* one, neither extractor was called for the message, and by the end of the
\* run the add_flags request for the message was issued.
C9_NoTextPath ==
    \A k \in 1..Len(outbox) :
        LET o == outbox[k]
            msg == mailbox[o.uid]
            notext == /\ Len(Trimmed(get_email_body(msg))) = 0
                      /\ Len(Trimmed(DecodeSubject(msg))) = 0
        IN /\ o.subject = ErrorSubject <=> notext
           /\ notext =>
                /\ o.body = ErrorBody
                /\ Count("extract_urls", o.uid) = 0
                /\ Count("extract_emails", o.uid) = 0
                /\ RunEnded => Count("add_flags", o.uid) > 0

\* r is in strictly ascending code-point order
Ascends(r) == \A i \in 1..(Len(r) - 1) : StrLess(r[i], r[i + 1])

NoDuplicate(r) == \A i, j \in 1..Len(r) : i # j => r[i] # r[j]

\* C10: extract_urls and extract_emails return a sequence without duplicates
\* in ascending code-point order, for every text.
C10_SortedNoDuplicates ==
    xpc \in {"extracted", "composed"} =>
        /\ NoDuplicate(xurls) /\ Ascends(xurls)
        /\ NoDuplicate(xemails) /\ Ascends(xemails)

C10_Witness ==
    /\ xpc = "extracted"
    /\ Len(xemails) = 2
    /\ FindAll(EMAIL_REGEX, xtext) = <<xemails[2], xemails[1]>>

\* the lines of a reply body: its pieces between the newlines
RECURSIVE LinesFrom(_, _)
LinesFrom(body, cur) ==
    IF Len(body) = 0 THEN <<cur>>
    ELSE IF Head(body) = "\n" THEN <<cur>> \o LinesFrom(Tail(body), <<>>)
    ELSE LinesFrom(Tail(body), Append(cur, Head(body)))

Lines(body) == LinesFrom(body, <<>>)

\* the positions of the line made of the one phrase in the lines ls
LineAt(ls, phrase) == {i \in 1..Len(ls) : ls[i] = <<phrase>>}

IsBullet(line) == Len(line) >= 2 /\ line[1] = "-" /\ line[2] = " "

\* the lines h+1 .. h+Len(items) of ls are the items, each after "- "
ItemsFollow(ls, h, items) ==
    /\ h + Len(items) <= Len(ls)
    /\ \A i \in 1..Len(items) : ls[h + i] = <<"-", " ">> \o items[i]

\* C11: the composed body has the URL section exactly when there are URLs,
\* the address section exactly when there are addresses and the
\* nothing-found line exactly when there are neither; the URL section comes
\* first; each section lists its items once, in the extractor's order, each
\* after "- "; the signature is the last line.
C11_ReplySections ==
    xpc = "composed" =>
        LET ls == Lines(xbody)
            uh == LineAt(ls, UrlHeading)
            eh == LineAt(ls, EmailHeading)
        IN /\ (uh # {}) <=> (Len(xurls) # 0)
           /\ (eh # {}) <=> (Len(xemails) # 0)
           /\ (LineAt(ls, NothingFound) # {})
                 <=> (Len(xurls) = 0 /\ Len(xemails) = 0)
           /\ Cardinality(uh) <= 1 /\ Cardinality(eh) <= 1
           /\ \A i \in uh, j \in eh : i < j
           /\ \A h \in uh : ItemsFollow(ls, h, xurls)
           /\ \A h \in eh : ItemsFollow(ls, h, xemails)
           /\ Cardinality({i \in 1..Len(ls) : IsBullet(ls[i])})
                 = Len(xurls) + Len(xemails)
           /\ ls[Len(ls)] = <<Signature>>

C11_Witness ==
    /\ xpc = "composed"
    /\ Len(xurls) # 0
    /\ Len(xemails) # 0

LowerLetters ==
    <<"a","b","c","d","e","f","g","h","i","j","k","l","m",
      "n","o","p","q","r","s","t","u","v","w","x","y","z">>

UpperLetters ==
    <<"A","B","C","D","E","F","G","H","I","J","K","L","M",
      "N","O","P","Q","R","S","T","U","V","W","X","Y","Z">>

ToLower(c) ==
    IF c \in Upper
    THEN LowerLetters[CHOOSE i \in 1..26 : UpperLetters[i] = c]
    ELSE c

\* the disposition type of a Content-Disposition value: what stands before
\* the first ";", trimmed, in lower case
DispositionType(cdispo) ==
    LET semis == {i \in 1..Len(cdispo) : cdispo[i] = ";"}
        end == IF semis = {} THEN Len(cdispo)
               ELSE (CHOOSE i \in semis : \A j \in semis : i <= j) - 1
        type == Trimmed(SubSeq(cdispo, 1, end))
    IN [i \in 1..Len(type) |-> ToLower(type[i])]

\* the part is plain text and not an attachment
Qualifies(part) ==
    /\ part.ctype = "text/plain"
    /\ DispositionType(part.cdispo) # AttachmentWord

\* C12: for a multipart message get_email_body returns the decoded payload of
\* the first part that is text/plain and whose disposition is not attachment,
\* and the empty string when there is no such part.
C12_FirstPlainTextPart ==
    (ypc = "resolved" /\ ~yreply.raised /\ ymsg.multipart) =>
        LET Q == {i \in 1..Len(ymsg.parts) : Qualifies(ymsg.parts[i])}
            first == CHOOSE i \in Q : \A j \in Q : i <= j
        IN ybody = IF Q = {} THEN <<>> ELSE DecodePayload(ymsg.parts[first])

HasDot(m) == \E i \in 1..Len(m) : m[i] = "."

\* C13: extract_urls returns exactly the matches of the pattern that are
\* longer than 5 characters and contain a ".": no shorter or dot-free match
\* is returned and no such match is dropped.
C13_UrlFilter ==
    xpc \in {"extracted", "composed"} =>
        Range(xurls) = {m \in Range(FindAll(URL_REGEX, xtext)) :
                           Len(m) > 5 /\ HasDot(m)}

C13_Witness ==
    /\ xpc = "extracted"
    /\ Len(xurls) = 1
    /\ \E m \in Range(FindAll(URL_REGEX, xtext)) : Len(m) <= 5

\* decoding the segment raises: a byte segment in a charset Python lacks
Undecodable(seg) ==
    seg.bytes /\ seg.charset # "" /\ seg.charset \notin Utf8Names \cup Latin1Names

\* the decoded segments that do not raise, concatenated in their order
RECURSIVE DecodableConcat(_)
DecodableConcat(segs) ==
    IF Len(segs) = 0 THEN <<>>
    ELSE LET seg == Head(segs)
         IN (IF Undecodable(seg) THEN <<>>
             ELSE IF seg.bytes THEN Decode(seg.s, seg.charset).v
             ELSE seg.s)
            \o DecodableConcat(Tail(segs))

\* C14: the decoded subject is the concatenation, in order and without a
\* separator, of the segments whose decoding does not raise: a segment that
\* raises is skipped alone; the subject of an absent header is empty.
C14_FailingSegmentSkippedAlone ==
    (ypc = "resolved" /\ ~yreply.raised) =>
        ysubject = IF ymsg.Subject.has THEN DecodableConcat(ymsg.Subject.v)
                   ELSE <<>>

\* C15: the recipient of a reply is what stands between the first "<" of the
\* From header and the next ">" after it when there are both, and the From
\* header as it is otherwise.
C15_RecipientFromBrackets ==
    (ypc = "resolved" /\ ~yreply.raised) =>
        LET raw == ymsg.From.v
            opens == {i \in 1..Len(raw) : raw[i] = "<"}
            open == CHOOSE i \in opens : \A j \in opens : i <= j
            closes == {i \in (open + 1)..Len(raw) : raw[i] = ">"}
            close == CHOOSE i \in closes : \A j \in closes : i <= j
        IN yreply.to = IF opens # {} /\ closes # {}
                       THEN SubSeq(raw, open + 1, close - 1)
                       ELSE raw

\* the positions in the log of the requests made for message u
EventsOf(u) == {i \in 1..Len(log) : log[i].uid = u}

\* message u was taken up before message v in the current run
TakenUpBefore(u, v) ==
    /\ EventsOf(u) # {}
    /\ EventsOf(v) # {}
    /\ \E i \in EventsOf(u) : \A j \in EventsOf(v) : i < j

\* C16: within one run the side effects of two messages never interleave:
\* when a message is taken up after another, every request made for the
\* earlier one precedes every request made for the later one, the earlier
\* one's reply is followed by its mark-seen request, and every SMTP session
\* opened for the earlier one has been closed with quit
C16_NoInterleaving ==
    \A u \in UIDs : \A v \in UIDs \ {u} :
        TakenUpBefore(u, v) =>
            /\ \A i \in EventsOf(u) : \A j \in EventsOf(v) : i < j
            /\ \A s \in Indices("send_email", u) :
                   \E k \in Indices("add_flags", u) : s < k /\ log[k].ok
            /\ \A a \in Indices("smtp_connect", u) :
                   log[a].ok => \E q \in Indices("quit", u) : a < q /\ log[q].ok

\* two messages replied to in one run, each over an SMTP session of its own
C16_Witness ==
    /\ RunEnded
    /\ \E u \in UIDs : \E v \in UIDs \ {u} :
           /\ TakenUpBefore(u, v)
           /\ \E a \in Indices("smtp_connect", u) : log[a].ok
           /\ \E b \in Indices("smtp_connect", v) : log[b].ok
           /\ Completed(v)

\* the positions in the log of the requests named op, whatever the message
Requests(op) == {i \in 1..Len(log) : log[i].op = op}

Connected == \E i \in Requests("imap_connect") : log[i].ok

\* the search of the current run succeeded and returned no message
SearchFoundNothing ==
    /\ \E i \in Requests("search") : log[i].ok
    /\ messages = <<>>

\* C18: logout is attempted exactly once on every exit path of a run whose
\* IMAP connection was established and never in a run whose connection
\* attempt failed; no request follows the logout; and a run whose search
\* returned nothing makes no fetch, send or mark-seen request
C18_LogoutOnceAndLast ==
    /\ Cardinality(Requests("logout")) <= 1
    /\ \A i \in Requests("logout") : i = Len(log)
    /\ Requests("logout") # {} => Connected
    /\ (RunEnded /\ Connected) => Cardinality(Requests("logout")) = 1
    /\ SearchFoundNothing =>
           /\ Requests("fetch") = {}
           /\ Requests("send_email") = {}
           /\ Requests("smtp_connect") = {}
           /\ Requests("send_message") = {}
           /\ Requests("add_flags") = {}

\* a run that found no unseen message and ended with its logout
C18_Witness ==
    /\ RunEnded
    /\ SearchFoundNothing
    /\ Requests("logout") = {Len(log)}

====
